---- MODULE Spec2Model ----
(***************************************************************************)
(* Bronze Ingestor Pipeline (src/ingestor.py).                             *)
(*                                                                         *)
(* The state is the part of the filesystem the script touches (landing/,   *)
(* bronze/, bad_data/), the local variables of ejecutar_pipeline and the   *)
(* position of the run.  One action per step of the script; the step       *)
(* boundaries are the system calls between which another process can       *)
(* change landing/ (delete an enumerated file, drop a new file).           *)
(*                                                                         *)
(* Environment: directory entries are regular files or subdirectories;     *)
(* bronze/ and bad_data/ hold regular files only; the external actor only  *)
(* touches landing/, and the files it drops after the scan carry names     *)
(* the scan did not enumerate (a file has no identity beyond its name).    *)
(* A file is <<"file", origin, name, size>>: the origin and name stand     *)
(* for its content, so that a replaced file differs from the original.     *)
(***************************************************************************)
EXTENDS Integers, Sequences, FiniteSets, TLC

\* Bounds of the model.
MaxNames == 2
MaxSize == 1

Names == 1..MaxNames
Sizes == 0..MaxSize

NoEntry == <<"none">>
DirEntry == <<"dir">>
File(origin, n, s) == <<"file", origin, n, s>>
IsFile(e) == e[1] = "file"
\* st_size of an entry: a directory's st_size is never 0.
StSize(e) == IF IsFile(e) THEN e[4] ELSE MaxSize

EmptyDir == [n \in Names |-> NoEntry]

VARIABLES
    landingDir, landing,      \* landing/ exists; its entries by name
    bronzeDir, bronze,        \* bronze/ exists; its entries by name
    badDir, bad_data,         \* bad_data/ exists; its entries by name
    pc,                       \* position of the run
    archivos, i,              \* the list built at scan time, the loop index
    tamanio, resultado,       \* procesar_archivo: size read, return value
    procesados, rechazados, errores,
    archivos_restantes,       \* result of the final glob("*")
    log,                      \* kinds of the messages logged by this run
    \* history of the current read by the properties only
    landingDir0, landing0, bronze0, bad0,   \* the filesystem when the run starts
    escaneado,                \* landing/ as the scan saw it
    intentos, leido, movido, fallo, incrementos, contado, escaneos

fs == <<landingDir, landing, bronzeDir, bronze, badDir, bad_data>>
locals == <<archivos, i, tamanio, resultado, procesados, rechazados, errores,
            archivos_restantes>>
hist == <<landingDir0, landing0, bronze0, bad0, escaneado, intentos, leido,
          movido, fallo, incrementos, contado, escaneos>>
vars == <<fs, locals, hist, pc, log>>

\* The list iterdir() yields for a set of names. Its order is arbitrary, and
\* Init ranges over every assignment of entries to names: listing by ascending
\* name covers every order up to a renaming of the files.
Listados(S) ==
    {s \in [1..Cardinality(S) -> S] : \A a, b \in 1..Cardinality(S) : a < b => s[a] < s[b]}

Enumerados == {archivos[k] : k \in 1..Len(archivos)}

NoHist ==
    /\ escaneado = EmptyDir
    /\ intentos = [n \in Names |-> 0]
    /\ leido = [n \in Names |-> -1]
    /\ movido = [n \in Names |-> "no"]
    /\ fallo = [n \in Names |-> FALSE]
    /\ incrementos = [n \in Names |-> 0]
    /\ contado = [n \in Names |-> "no"]
    /\ escaneos = 0

NoLocals ==
    /\ archivos = <<>>
    /\ i = 0
    /\ tamanio = -1
    /\ resultado = FALSE
    /\ procesados = 0
    /\ rechazados = 0
    /\ errores = 0
    /\ archivos_restantes = {}

Init ==
    /\ landingDir \in BOOLEAN
    /\ landing \in [Names -> {NoEntry, DirEntry} \cup
                             {File("landing", n, s) : n \in Names, s \in Sizes}]
    /\ \A n \in Names : IsFile(landing[n]) => landing[n][3] = n
    /\ ~landingDir => landing = EmptyDir
    /\ bronzeDir \in BOOLEAN
    /\ bronze \in [Names -> {NoEntry} \cup {File("bronze", n, MaxSize) : n \in Names}]
    /\ \A n \in Names : IsFile(bronze[n]) => bronze[n][3] = n
    /\ ~bronzeDir => bronze = EmptyDir
    /\ badDir \in BOOLEAN
    /\ bad_data \in [Names -> {NoEntry} \cup {File("bad_data", n, 0) : n \in Names}]
    /\ \A n \in Names : IsFile(bad_data[n]) => bad_data[n][3] = n
    /\ ~badDir => bad_data = EmptyDir
    /\ pc = "crear"
    /\ log = {}
    /\ landingDir0 = landingDir
    /\ landing0 = landing
    /\ bronze0 = bronze
    /\ bad0 = bad_data
    /\ NoLocals
    /\ NoHist

----
\* Mutant: the failure is logged and swallowed (no raise at line 30).
crear_carpetas_destino_sin_raise ==
    /\ pc = "crear"
    /\ \/ /\ bronzeDir' = TRUE
          /\ badDir' = TRUE
          /\ log' = log \cup {"carpetas_ok"}
       \/ /\ ~bronzeDir
          /\ UNCHANGED <<bronzeDir, badDir>>
          /\ log' = log \cup {"critical_carpetas"}
       \/ /\ ~badDir
          /\ bronzeDir' = TRUE
          /\ UNCHANGED badDir
          /\ log' = log \cup {"critical_carpetas"}
    /\ pc' = "verificar"
    /\ UNCHANGED <<landingDir, landing, bronze, bad_data, locals, hist>>

\* crear_carpetas_destino (lines 22-30), called at line 89. mkdir(exist_ok=True)
\* can only fail for a directory that does not exist yet; the failure is logged
\* as critical and re-raised, and ejecutar_pipeline's handler (155-157) re-raises.
crear_carpetas_destino ==
    /\ pc = "crear"
    /\ \/ /\ bronzeDir' = TRUE
          /\ badDir' = TRUE
          /\ log' = log \cup {"carpetas_ok"}
          /\ pc' = "verificar"
       \/ /\ ~bronzeDir
          /\ UNCHANGED <<bronzeDir, badDir>>
          /\ log' = log \cup {"critical_carpetas", "fatal"}
          /\ pc' = "fatal"
       \/ /\ ~badDir
          /\ bronzeDir' = TRUE
          /\ UNCHANGED badDir
          /\ log' = log \cup {"critical_carpetas", "fatal"}
          /\ pc' = "fatal"
    /\ UNCHANGED <<landingDir, landing, bronze, bad_data, locals, hist>>

\* Mutant: the missing landing/ is reported but not created (no mkdir at 97).
verificar_landing_sin_crear ==
    /\ pc = "verificar"
    /\ IF ~landingDir
       THEN /\ log' = log \cup {"landing_creada"}
            /\ pc' = "done"
       ELSE /\ UNCHANGED log
            /\ pc' = "listar"
    /\ UNCHANGED <<fs, locals, hist>>

\* Lines 92-99: landing/ missing: create it and return.
verificar_landing ==
    /\ pc = "verificar"
    /\ IF ~landingDir
       THEN /\ landingDir' = TRUE
            /\ log' = log \cup {"landing_creada"}
            /\ pc' = "done"
       ELSE /\ UNCHANGED <<landingDir, log>>
            /\ pc' = "listar"
    /\ UNCHANGED <<landing, bronzeDir, bronze, badDir, bad_data, locals, hist>>

\* Mutant: the scan keeps every entry (no is_file() filter).
es_archivo_cualquiera(e) == e # NoEntry

\* f.is_file() of line 102.
es_archivo(e) == IsFile(e)

\* Lines 102-113: the scan, the early return on an empty list, the counters.
listar_archivos ==
    /\ pc = "listar"
    /\ \E s \in Listados({n \in Names : es_archivo(landing[n])}) :
          /\ archivos' = s
          /\ IF Len(s) = 0
             THEN /\ log' = log \cup {"no_archivos"}
                  /\ pc' = "done"
                  /\ i' = i
             ELSE /\ log' = log \cup {"encontrados"}
                  /\ pc' = "stat"
                  /\ i' = 1
    /\ escaneado' = landing
    /\ escaneos' = escaneos + 1
    /\ procesados' = 0
    /\ rechazados' = 0
    /\ errores' = 0
    /\ UNCHANGED <<fs, tamanio, resultado, archivos_restantes, landingDir0, landing0,
                   bronze0, bad0, intentos, leido, movido, fallo, incrementos, contado>>

----
\* Mutant: the test is tamanio >= 0, so an empty file goes to bronze/.
clasificar_vacio_a_bronze(t) == IF t >= 0 THEN "bronze" ELSE "bad_data"

\* Lines 50-58: the classification by size.
clasificar(t) == IF t > 0 THEN "bronze" ELSE "bad_data"

\* procesar_archivo, lines 43-47: archivo.stat().st_size. A file the external
\* actor deleted since the scan raises FileNotFoundError (63-65): return False.
procesar_archivo_stat ==
    /\ pc = "stat"
    /\ LET a == archivos[i] IN
          /\ intentos' = [intentos EXCEPT ![a] = @ + 1]
          /\ IF landing[a] = NoEntry
             THEN /\ resultado' = FALSE
                  /\ fallo' = [fallo EXCEPT ![a] = TRUE]
                  /\ log' = log \cup {"error_archivo"}
                  /\ pc' = "contar"
                  /\ UNCHANGED <<tamanio, leido>>
             ELSE /\ tamanio' = StSize(landing[a])
                  /\ leido' = [leido EXCEPT ![a] = StSize(landing[a])]
                  /\ pc' = "mover"
                  /\ UNCHANGED <<resultado, fallo, log>>
    /\ UNCHANGED <<fs, archivos, i, procesados, rechazados, errores,
                   archivos_restantes, landingDir0, landing0, bronze0, bad0,
                   escaneado, movido, incrementos, contado, escaneos>>

\* What shutil.move(src, dst) of lines 53 and 59 can do to an existing src:
\*   "renombrado": os.rename succeeds (a file at dst is replaced), or it fails
\*                 and the fallback copy and unlink both succeed;
\*   "denegado":   os.rename fails and so does the copy: nothing changes;
\*   "copiado":    os.rename fails (landing/ not writable), the fallback copy
\*                 succeeds and os.unlink(src) then raises PermissionError.
\* A directory is renamed or refused; a missing destination directory refuses.
shutil_move(e, destDir) ==
    IF ~destDir THEN {"denegado"}
    ELSE IF IsFile(e) THEN {"renombrado", "denegado", "copiado"}
    ELSE {"renombrado", "denegado"}

\* Mutant: the destination path is built from a fixed name.
destino_fijo(a) == MaxNames

\* archivo.name of lines 52 and 58: the entry keeps its name.
destino(a) == a

\* procesar_archivo, lines 50-76: the move, and the handlers that turn every
\* exception into "return False".
procesar_archivo_move ==
    /\ pc = "mover"
    /\ LET a == archivos[i]
           e == landing[a]
           d == clasificar(tamanio)
           dirOk == IF d = "bronze" THEN bronzeDir ELSE badDir
       IN
          IF e = NoEntry
          THEN /\ resultado' = FALSE
               /\ fallo' = [fallo EXCEPT ![a] = TRUE]
               /\ log' = log \cup {"error_archivo"}
               /\ UNCHANGED <<fs, movido>>
          ELSE \E r \in shutil_move(e, dirOk) :
               /\ landing' = IF r = "renombrado"
                             THEN [landing EXCEPT ![a] = NoEntry] ELSE landing
               /\ bronze' = IF r # "denegado" /\ d = "bronze"
                            THEN [bronze EXCEPT ![destino(a)] = e] ELSE bronze
               /\ bad_data' = IF r # "denegado" /\ d = "bad_data"
                              THEN [bad_data EXCEPT ![destino(a)] = e] ELSE bad_data
               /\ resultado' = (r = "renombrado")
               /\ movido' = IF r = "renombrado" THEN [movido EXCEPT ![a] = d] ELSE movido
               /\ fallo' = [fallo EXCEPT ![a] = (r # "renombrado")]
               /\ log' = log \cup {IF r = "renombrado" THEN d ELSE "error_archivo"}
               /\ UNCHANGED <<landingDir, bronzeDir, badDir>>
    /\ pc' = "contar"
    /\ UNCHANGED <<archivos, i, tamanio, procesados, rechazados, errores,
                   archivos_restantes, landingDir0, landing0, bronze0, bad0,
                   escaneado, intentos, leido, incrementos, contado, escaneos>>

\* Mutant: the handler of 129-131 logs the exception and counts nothing.
contador_sin_excepcion(res, enBronze, lanza) ==
    IF ~res THEN "errores"
    ELSE IF lanza THEN "ninguno"
    ELSE IF enBronze THEN "procesados"
    ELSE "rechazados"

\* Lines 117-131: the counter one iteration increments. res is resultado,
\* enBronze is (Path("bronze") / archivo.name).exists(), lanza is that call
\* raising (PermissionError on a bronze/ that cannot be searched, after a move
\* into bad_data/), which the handler of 129-131 counts.
contador(res, enBronze, lanza) ==
    IF ~res THEN "errores"
    ELSE IF lanza THEN "errores"
    ELSE IF enBronze THEN "procesados"
    ELSE "rechazados"

\* Mutant: a failed file ends the loop (break instead of going on).
siguiente_aborta(res, idx, len) == IF res /\ idx < len THEN "stat" ELSE "resumen"

\* Line 116: the for loop goes on whatever the iteration's outcome.
siguiente(res, idx, len) == IF idx < len THEN "stat" ELSE "resumen"

\* Lines 116-132: count the outcome of the current file and go to the next.
contar_resultado ==
    /\ pc = "contar"
    /\ LET a == archivos[i] IN
       \E lanza \in (IF resultado /\ clasificar(tamanio) = "bad_data"
                     THEN BOOLEAN ELSE {FALSE}) :
          LET c == contador(resultado, bronze[a] # NoEntry, lanza) IN
          /\ procesados' = IF c = "procesados" THEN procesados + 1 ELSE procesados
          /\ rechazados' = IF c = "rechazados" THEN rechazados + 1 ELSE rechazados
          /\ errores' = IF c = "errores" THEN errores + 1 ELSE errores
          /\ incrementos' = [incrementos EXCEPT
                                ![a] = IF c \in {"procesados", "rechazados", "errores"}
                                       THEN @ + 1 ELSE @]
          /\ contado' = [contado EXCEPT ![a] = c]
          /\ fallo' = [fallo EXCEPT ![a] = @ \/ lanza]
          /\ log' = IF lanza THEN log \cup {"error_no_capturado"} ELSE log
    /\ pc' = siguiente(resultado, i, Len(archivos))
    /\ i' = i + 1
    /\ UNCHANGED <<fs, archivos, tamanio, resultado, archivos_restantes,
                   landingDir0, landing0, bronze0, bad0, escaneado, intentos, leido,
                   movido, escaneos>>

\* Lines 135-146: the summary.
resumen ==
    /\ pc = "resumen"
    /\ log' = log \cup {"resumen"}
    /\ pc' = "restantes"
    /\ UNCHANGED <<fs, locals, hist>>

\* Mutant: the final check lists regular files only.
glob_landing_solo_archivos(dir) == {n \in Names : IsFile(dir[n])}

\* carpeta_landing.glob("*") of line 149: every entry, directories included.
glob_landing(dir) == {n \in Names : dir[n] # NoEntry}

\* Lines 148-153: the final check of landing/.
verificar_restantes ==
    /\ pc = "restantes"
    /\ archivos_restantes' = glob_landing(landing)
    /\ log' = log \cup {IF glob_landing(landing) # {} THEN "quedan" ELSE "vacia"}
    /\ pc' = "done"
    /\ UNCHANGED <<fs, archivos, i, tamanio, resultado, procesados, rechazados,
                   errores, hist>>

----
\* The external actor, between the scan and the final check of landing/. It
\* acts before a step that reads landing/ (the stat, the move, the final
\* glob); the other steps (the count, the summary) do not read landing/, so a
\* change made before one of them is the same as one made right after it.
EnProceso == pc \in {"stat", "mover", "restantes"}

\* Another process deletes a regular file of landing/.
ext_borrar ==
    /\ EnProceso
    /\ \E n \in Names :
          /\ IsFile(landing[n])
          /\ landing' = [landing EXCEPT ![n] = NoEntry]
    /\ UNCHANGED <<landingDir, bronzeDir, bronze, badDir, bad_data, locals, pc, log,
                   hist>>

\* Another process drops a new file into landing/ after the scan.
ext_llegar ==
    /\ EnProceso
    /\ \E n \in Names \ Enumerados, s \in Sizes :
          /\ landing[n] = NoEntry
          /\ landing' = [landing EXCEPT ![n] = File("ext", n, s)]
    /\ UNCHANGED <<landingDir, bronzeDir, bronze, badDir, bad_data, locals, pc, log,
                   hist>>

----
\* ejecutar_pipeline (lines 78-157), step by step.
ejecutar_pipeline ==
    \/ crear_carpetas_destino
    \/ verificar_landing
    \/ listar_archivos
    \/ procesar_archivo_stat
    \/ procesar_archivo_move
    \/ contar_resultado
    \/ resumen
    \/ verificar_restantes

Next == ejecutar_pipeline \/ ext_borrar \/ ext_llegar

Spec == Init /\ [][Next]_vars

\* The script alone: no other process touches landing/ during a run.
NextAislado == ejecutar_pipeline

SpecAislado == Init /\ [][NextAislado]_vars

----
\* Properties.

Suma == procesados + rechazados + errores
\* The processing loop has ended (the run is at the summary or past it).
TrasBucle == pc \in {"resumen", "restantes", "done"} /\ Len(archivos) > 0
EnBucle == pc \in {"stat", "mover", "contar"}
Lugares(n) ==
    {l \in {"landing", "bronze", "bad_data"} :
        \/ l = "landing" /\ landing[n] = escaneado[n]
        \/ l = "bronze" /\ bronze[n] = escaneado[n]
        \/ l = "bad_data" /\ bad_data[n] = escaneado[n]}

\* C1 (as claimed): once the loop has ended, every enumerated file is in exactly
\* one of landing/, bronze/, bad_data/, and in landing/ only if it was counted
\* as errored.
C1_ExactamenteUnLugar ==
    TrasBucle =>
        \A n \in Enumerados :
            /\ Cardinality(Lugares(n)) = 1
            /\ "landing" \in Lugares(n) => contado[n] = "errores"

\* C2: a file the run moved went to bad_data/ when the size read was 0 and to
\* bronze/ when it was greater than 0; a counted, non-errored file was moved so;
\* no file the run put in bronze/ is empty and none it put in bad_data/ is not.
C2_ClasificacionPorTamanio ==
    \A n \in Names :
        /\ movido[n] = "bad_data" => leido[n] = 0 /\ bad_data[n] = escaneado[n]
        /\ movido[n] = "bronze" => leido[n] > 0 /\ bronze[n] = escaneado[n]
        /\ (contado[n] # "no" /\ ~fallo[n]) =>
               movido[n] = (IF leido[n] = 0 THEN "bad_data" ELSE "bronze")
        /\ (IsFile(bronze[n]) /\ bronze[n] # bronze0[n]) => bronze[n][4] > 0
        /\ (IsFile(bad_data[n]) /\ bad_data[n] # bad0[n]) => bad_data[n][4] = 0

\* C2 witness: a finished run that moved one file to each destination.
C2_Witness ==
    /\ pc = "done"
    /\ \E n, m \in Names : movido[n] = "bronze" /\ movido[m] = "bad_data"

\* C3 (as claimed): at the summary procesados is the number of files the run
\* moved into bronze/, rechazados the number it moved into bad_data/, errores
\* the number of files whose processing failed. Stated for the runs in which
\* the exists() check of line 122 never raised, the case the claim is about.
C3_ConteoExacto ==
    ("resumen" \in log /\ "error_no_capturado" \notin log) =>
        /\ procesados = Cardinality({n \in Names : movido[n] = "bronze"})
        /\ rechazados = Cardinality({n \in Names : movido[n] = "bad_data"})
        /\ errores = Cardinality({n \in Names : fallo[n]})

\* C4: inside the loop the three counters add up to the number of files already
\* counted; once the loop has ended they add up to the number of regular files
\* the scan saw, each enumerated file having incremented exactly one counter.
C4_SumaDeContadores ==
    /\ pc \in {"stat", "mover"} => Suma = i - 1
    /\ pc = "contar" => Suma = i - 1
    /\ TrasBucle =>
          /\ Suma = Len(archivos)
          /\ Len(archivos) = Cardinality({n \in Names : IsFile(escaneado[n])})
          /\ \A n \in Enumerados : incrementos[n] = 1 /\ contado[n] # "no"
    /\ \A n \in Names : incrementos[n] <= 1

\* C4 witness: a finished run with a moved file and an errored file.
C4_Witness ==
    /\ pc = "done"
    /\ procesados >= 1
    /\ errores >= 1

\* C5: a failed file is counted as errored and nothing else; the run is fatal
\* only before the scan; the loop never stops early: once it has ended every
\* enumerated file was attempted exactly once, and until the run has returned
\* the script always has a next step.
C5_ErrorPorArchivo ==
    /\ pc = "fatal" => escaneos = 0
    /\ \A n \in Names : (fallo[n] /\ contado[n] # "no") => contado[n] = "errores"
    /\ EnBucle => /\ i \in 1..Len(archivos)
                  /\ \A k \in 1..(i - 1) : intentos[archivos[k]] = 1
    /\ TrasBucle =>
          /\ \A n \in Names : intentos[n] = (IF n \in Enumerados THEN 1 ELSE 0)
          /\ errores = Cardinality({n \in Names : fallo[n]})
    /\ pc \notin {"done", "fatal"} => ENABLED ejecutar_pipeline

\* C5 witness: the first file was deleted before its stat, the second was
\* still moved, and the run reached its summary.
C5_Witness ==
    /\ pc = "done"
    /\ "resumen" \in log
    /\ Len(archivos) >= 2
    /\ fallo[archivos[1]]
    /\ leido[archivos[1]] = -1
    /\ movido[archivos[2]] # "no"

\* C6: a run that finds landing/ absent, or without regular files, returns
\* without error, moves nothing and leaves bronze/ and bad_data/ as they were;
\* an absent landing/ exists and is empty afterwards.
C6_SinArchivos ==
    (/\ pc = "done"
     /\ \/ ~landingDir0
        \/ \A n \in Names : ~IsFile(landing0[n])) =>
        /\ bronze = bronze0
        /\ bad_data = bad0
        /\ landing = landing0
        /\ landingDir
        /\ ~landingDir0 => landing = EmptyDir
        /\ log \cap {"fatal", "critical_carpetas", "error_archivo",
                     "error_no_capturado", "bronze", "bad_data", "resumen"} = {}
        /\ \A n \in Names : movido[n] = "no" /\ intentos[n] = 0
        /\ Suma = 0

\* C6 witness: a run over an absent landing/ has returned, bronze/ holding a
\* file from before.
C6_Witness ==
    /\ pc = "done"
    /\ ~landingDir0
    /\ \E n \in Names : IsFile(bronze[n])

\* C7: when crear_carpetas_destino fails the run is fatal: landing/ is never
\* scanned, no file is moved and no counter changes.
C7_FatalSinEfecto ==
    "critical_carpetas" \in log =>
        /\ pc = "fatal"
        /\ escaneos = 0
        /\ Len(archivos) = 0
        /\ landing = landing0
        /\ landingDir = landingDir0
        /\ bronze = bronze0
        /\ bad_data = bad0
        /\ Suma = 0
        /\ \A n \in Names : movido[n] = "no" /\ intentos[n] = 0

\* C7 witness: a fatal run with a regular file waiting in landing/.
C7_Witness ==
    /\ pc = "fatal"
    /\ \E n \in Names : IsFile(landing[n])

Quedan == "quedan" \in log
Vacia == "vacia" \in log

\* C8 (as claimed): every returned run over an existing landing/ has logged
\* exactly one of the two messages, the success one exactly when landing/ is
\* empty.
C8_SiempreUnMensaje ==
    (pc = "done" /\ landingDir0) =>
        /\ Quedan # Vacia
        /\ Vacia <=> (\A n \in Names : landing[n] = NoEntry)

\* C8 (amended): a returned run whose scan found at least one regular file has
\* logged exactly one of the two messages: the warning when an entry (file or
\* subdirectory) was in landing/ at the final check, the success one when none
\* was; a run whose scan found no regular file logs neither, and neither is
\* logged before the final check.
C8_MensajeTrasProcesar ==
    /\ (pc = "done" /\ Len(archivos) > 0) =>
          /\ Quedan # Vacia
          /\ Quedan <=> (\E n \in Names : landing[n] # NoEntry)
          /\ archivos_restantes = {n \in Names : landing[n] # NoEntry}
    /\ (pc # "done" \/ Len(archivos) = 0) => ~Quedan /\ ~Vacia

\* C8 witness: a returned run that moved a file and warned because a
\* subdirectory is left in landing/.
C8_Witness ==
    /\ pc = "done"
    /\ Quedan
    /\ \E n \in Names : movido[n] # "no"
    /\ \E n \in Names : landing[n] = DirEntry
    /\ \A n \in Names : ~IsFile(landing[n])

\* C9: landing/ is scanned at most once; the list holds exactly the regular
\* files the scan saw; a name that is not in the list (a subdirectory, a file
\* that arrived later) is never attempted, moved or counted and its entry in
\* the destinations is untouched; no file is attempted twice.
C9_SoloLoEscaneado ==
    /\ escaneos <= 1
    /\ escaneos = 1 => Enumerados = {n \in Names : IsFile(escaneado[n])}
    /\ \A n \in Names \ Enumerados :
          /\ bronze[n] = bronze0[n]
          /\ bad_data[n] = bad0[n]
          /\ intentos[n] = 0
          /\ incrementos[n] = 0
          /\ movido[n] = "no"
          /\ escaneado[n] = DirEntry => landing[n] = DirEntry
    /\ \A n \in Names : intentos[n] <= 1
    /\ Suma <= Len(archivos)
    /\ i <= Len(archivos) + 1

\* C9 witness: a returned run that moved a file while a file that arrived
\* after the scan is still in landing/.
C9_Witness ==
    /\ pc = "done"
    /\ \E n \in Names : movido[n] # "no"
    /\ \E n \in Names : IsFile(landing[n]) /\ landing[n][2] = "ext"

\* C10 (as claimed): every file that was in bronze/ or bad_data/ when the run
\* started is still there with the same content.
C10_DestinoIntacto ==
    \A n \in Names :
        /\ IsFile(bronze0[n]) => bronze[n] = bronze0[n]
        /\ IsFile(bad0[n]) => bad_data[n] = bad0[n]

\* C10 (amended): a file that was in bronze/ or bad_data/ when the run started
\* is still there with the same content, unless an enumerated landing/ file of
\* the same name, classified into that directory, has replaced it; no name
\* disappears from a destination.
C10_SoloReemplazoPorHomonimo ==
    \A n \in Names :
        /\ IsFile(bronze0[n]) =>
              \/ bronze[n] = bronze0[n]
              \/ n \in Enumerados /\ bronze[n] = escaneado[n] /\ leido[n] > 0
        /\ IsFile(bad0[n]) =>
              \/ bad_data[n] = bad0[n]
              \/ n \in Enumerados /\ bad_data[n] = escaneado[n] /\ leido[n] = 0

\* C10 witness: a returned run has replaced a file that was in bronze/.
C10_Witness ==
    /\ pc = "done"
    /\ \E n \in Names : IsFile(bronze0[n]) /\ bronze[n] # bronze0[n]

====
